---- MODULE Spec2Model ----
(***************************************************************************)
(* Model of trapframe-rs src/arch/x86_64/fncall.rs: switching between a    *)
(* host ("kernel") context and a guest ("user") context by function call   *)
(* within one privilege level.                                             *)
(*                                                                         *)
(* The two assembly routines syscall_fn_entry and syscall_fn_return are    *)
(* transcribed instruction by instruction (Linux and macOS macro sets) and *)
(* run by a small x86-64 interpreter over a word-addressed memory.  The    *)
(* Rust wrapper UserContext::run_fncall, the guest program and the host's  *)
(* editing of the frame between cycles are actions around them.            *)
(***************************************************************************)
EXTENDS Integers, Sequences, FiniteSets, TLC

(***************************************************************************)
(* Bounds of the model.                                                    *)
(***************************************************************************)
\* run_fncall calls made by one thread of the single-thread specification
MaxCycles == 2
\* edits per thread: frame fields the host sets between two cycles, and stores
\* of the guest into the self-pointer word of its TLS block
MaxEdits == 1
\* run_fncall calls made by each thread of the two-thread specification
MTCycles == 1

Threads == {1, 2}

(***************************************************************************)
(* Register file.  "tls" is the active TLS segment base: fs on Linux, gs   *)
(* on macOS.                                                               *)
(***************************************************************************)
GPR == {"rax", "rbx", "rcx", "rdx", "rsi", "rdi", "rbp", "rsp",
        "r8", "r9", "r10", "r11", "r12", "r13", "r14", "r15"}
Regs == GPR \cup {"rip", "rflags", "tls"}

\* struct GeneralRegs, in ascending address order: the order in which
\* syscall_fn_return pops and the reverse of the order syscall_fn_entry pushes
FrameFields == <<"rax", "rbx", "rcx", "rdx", "rsi", "rdi", "rbp", "rsp",
                 "r8", "r9", "r10", "r11", "r12", "r13", "r14", "r15",
                 "rip", "rflags", "fsbase", "gsbase">>
FieldIndex(f) == CHOOSE i \in 1..Len(FrameFields) : FrameFields[i] = f
FieldOff(f) == 8 * (FieldIndex(f) - 1)
\* UserContext { general: GeneralRegs, trap_num: usize, error_code: usize }
TrapNumOff == 8 * Len(FrameFields)
ErrorCodeOff == TrapNumOff + 8
FrameWords == Len(FrameFields) + 2

(***************************************************************************)
(* Address space.  Every thread owns its regions; code is shared.          *)
(***************************************************************************)
ThreadBase(t) == t * 100000
\* the host thread's TLS control block (glibc pthread / darwin pthread tsd)
HostTcb(t) == ThreadBase(t) + 1000
HostTcbWords == 38
\* two TLS blocks of the guest (musl pthread): block 1 set up by the guest's
\* libc, block 2 allocated but its self-pointer word not yet written
GuestTls(t, i) == ThreadBase(t) + 2000 + 100 * i
GuestTlsWords == 7
\* two UserContext objects of the host
Frame(t, i) == ThreadBase(t) + 3000 + 200 * i
\* the host stack (grows down from HostStackTop) and the guest stack
HostStackTop(t) == ThreadBase(t) + 5000
HostStackWords == 10
GuestStackTop(t) == ThreadBase(t) + 6000
GuestStackWords == 3

Range(base, words) == {base + 8 * i : i \in 0..(words - 1)}
FrameArea(f) == Range(f, FrameWords)
FrameRegArea(f) == Range(f, Len(FrameFields))
ThreadAddrs(t) ==
    Range(HostTcb(t), HostTcbWords)
    \cup Range(GuestTls(t, 1), GuestTlsWords) \cup Range(GuestTls(t, 2), GuestTlsWords)
    \cup FrameArea(Frame(t, 1)) \cup FrameArea(Frame(t, 2))
    \cup Range(HostStackTop(t) - 8 * HostStackWords, HostStackWords)
    \cup Range(GuestStackTop(t) - 8 * GuestStackWords, GuestStackWords)
Addrs == UNION {ThreadAddrs(t) : t \in Threads}

\* code addresses: one unit per instruction
EntryAddr == 7 * 100
ReturnAddr == 8 * 100
\* run_fncall: the caller's code, the instruction after the call, the second store
HostIdle == 9 * 100
HostRA == HostIdle + 1
HostRA2 == HostIdle + 2
\* guest code: any address in GuestCode
GuestCode == 400..420

(***************************************************************************)
(* RFLAGS arithmetic on integers (values below 2^12).                      *)
(***************************************************************************)
RECURSIVE BitAnd(_, _)
BitAnd(a, b) ==
    IF a = 0 \/ b = 0 THEN 0
    ELSE (a % 2) * (b % 2) + 2 * BitAnd(a \div 2, b \div 2)
RECURSIVE PopCount(_)
PopCount(a) == IF a = 0 THEN 0 ELSE (a % 2) + PopCount(a \div 2)

FlagCF == 1
FlagPF == 4
FlagAF == 16
FlagZF == 64
FlagSF == 128
FlagOF == 2048
FlagsAll == 4095
\* CF PF AF ZF SF OF: the status flags an arithmetic instruction rewrites
StatusFlags == FlagCF + FlagPF + FlagAF + FlagZF + FlagSF + FlagOF
\* the flags popfq can change at CPL 3: the status flags, TF (256) and DF (1024);
\* IF (512) and the reserved bits keep their current value
PopfqMask == StatusFlags + 256 + 1024

ZF(flags) == BitAnd(flags, FlagZF) # 0
\* flags after a logical/arithmetic result v (no carry or overflow in the
\* value range of the model), with auxiliary-carry bit af
ResultFlags(old, v, af) ==
    BitAnd(old, FlagsAll - StatusFlags)
    + (IF v = 0 THEN FlagZF ELSE 0)
    + (IF PopCount(v % 256) % 2 = 0 THEN FlagPF ELSE 0)
    + (IF af THEN FlagAF ELSE 0)
Popfq(old, v) == BitAnd(v, PopfqMask) + BitAnd(old, FlagsAll - PopfqMask)

(***************************************************************************)
(* Instruction encoding: [op, a, b] with operands [k, r, d].               *)
(*   R(r)     register r                                                   *)
(*   I(v)     immediate v                                                  *)
(*   M(r, d)  memory word [r + d]                                          *)
(*   S(d)     memory word fs:d (Linux) / gs:d (macOS)                      *)
(*   A(d)     memory word at the absolute address d                        *)
(***************************************************************************)
R(r) == [k |-> "reg", r |-> r, d |-> 0]
I(v) == [k |-> "imm", r |-> "none", d |-> v]
M(r, d) == [k |-> "mem", r |-> r, d |-> d]
S(d) == [k |-> "seg", r |-> "tls", d |-> d]
A(d) == [k |-> "abs", r |-> "none", d |-> d]
NoOperand == [k |-> "none", r |-> "none", d |-> 0]
Ins(op, a, b) == [op |-> op, a |-> a, b |-> b]
Ins1(op, a) == Ins(op, a, NoOperand)
Ins0(op) == Ins(op, NoOperand, NoOperand)

(***************************************************************************)
(* The assembly macros, Linux (glibc host, musl guest).                    *)
(*   guest  fs:0 = user fsbase, fs:48 = kernel fsbase                      *)
(*   host   fs:0 = kernel fsbase, fs:64 = kernel stack,                    *)
(*          fs:72 = init user fsbase                                       *)
(***************************************************************************)
SWITCH_TO_KERNEL_STACK_linux ==
    << Ins("mov", R("rsp"), S(48)),           \* rsp = kernel fsbase
       Ins("mov", R("rsp"), M("rsp", 64)) >>  \* rsp = kernel stack
\* mutant: the kernel stack pointer kept in one static word instead of fs:64
SAVE_KERNEL_STACK_linux_Static ==
    << Ins("mov", A(HostTcb(1) + 64), R("rsp")) >>
SAVE_KERNEL_STACK_linux ==
    << Ins("mov", S(64), R("rsp")) >>
PUSH_USER_FSBASE_linux ==
    << Ins1("push", S(0)) >>
\* mutant: the base is read from fs:0 (the guest's own) instead of fs:48
SWITCH_TO_KERNEL_FSBASE_linux_Self ==
    << Ins("mov", R("rax"), I(158)),
       Ins("mov", R("rdi"), I(4098)),
       Ins("mov", R("rsi"), S(0)),
       Ins0("syscall") >>
SWITCH_TO_KERNEL_FSBASE_linux ==
    << Ins("mov", R("rax"), I(158)),          \* mov eax, 158: SYS_arch_prctl
       Ins("mov", R("rdi"), I(4098)),         \* mov edi, 0x1002: SET_FS
       Ins("mov", R("rsi"), S(48)),           \* rsi = kernel fsbase
       Ins0("syscall") >>
\* mutant: the fallback stores the kernel base (rdx) in the guest's self-pointer
POP_USER_FSBASE_linux_WrongSelf ==
    << Ins("mov", R("rsi"), M("rsp", 18 * 8)),
       Ins("mov", R("rdx"), S(0)),
       Ins("test", R("rsi"), R("rsi")),
       Ins1("jnz", I(2)),
       Ins("lea", R("rsi"), M("rdx", 72)),
       Ins("mov", M("rsi", 0), R("rdx")),
       Ins("mov", R("rax"), I(158)),
       Ins("mov", R("rdi"), I(4098)),
       Ins0("syscall"),
       Ins("mov", S(48), R("rdx")) >>
\* mutant: the fallback does not store the self-pointer
POP_USER_FSBASE_linux_NoSelfStore ==
    << Ins("mov", R("rsi"), M("rsp", 18 * 8)),
       Ins("mov", R("rdx"), S(0)),
       Ins("test", R("rsi"), R("rsi")),
       Ins1("jnz", I(2)),
       Ins("lea", R("rsi"), M("rdx", 72)),
       Ins("mov", R("rsi"), R("rsi")),
       Ins("mov", R("rax"), I(158)),
       Ins("mov", R("rdi"), I(4098)),
       Ins0("syscall"),
       Ins("mov", S(48), R("rdx")) >>
\* mutant: the fallback writes the derived base into the frame's TLS field
POP_USER_FSBASE_linux_ToFrame ==
    << Ins("mov", R("rsi"), M("rsp", 18 * 8)),
       Ins("mov", R("rdx"), S(0)),
       Ins("test", R("rsi"), R("rsi")),
       Ins1("jnz", I(2)),
       Ins("lea", R("rsi"), M("rdx", 72)),
       Ins("mov", M("rsp", 18 * 8), R("rsi")),
       Ins("mov", R("rax"), I(158)),
       Ins("mov", R("rdi"), I(4098)),
       Ins0("syscall"),
       Ins("mov", S(48), R("rdx")) >>
\* mutant: the initial guest block placed at kernel fsbase + 16, its stash
\* slot falling on fs:64
POP_USER_FSBASE_linux_Overlap ==
    << Ins("mov", R("rsi"), M("rsp", 18 * 8)),
       Ins("mov", R("rdx"), S(0)),
       Ins("test", R("rsi"), R("rsi")),
       Ins1("jnz", I(2)),
       Ins("lea", R("rsi"), M("rdx", 16)),
       Ins("mov", M("rsi", 0), R("rsi")),
       Ins("mov", R("rax"), I(158)),
       Ins("mov", R("rdi"), I(4098)),
       Ins0("syscall"),
       Ins("mov", S(48), R("rdx")) >>
POP_USER_FSBASE_linux ==
    << Ins("mov", R("rsi"), M("rsp", 18 * 8)),  \* rsi = user fsbase
       Ins("mov", R("rdx"), S(0)),              \* rdx = kernel fsbase
       Ins("test", R("rsi"), R("rsi")),
       Ins1("jnz", I(2)),                       \* jnz 1f
       Ins("lea", R("rsi"), M("rdx", 72)),      \* 0: rsi = init user fsbase
       Ins("mov", M("rsi", 0), R("rsi")),       \* user_fs:0 = user fsbase
       Ins("mov", R("rax"), I(158)),            \* 1: mov eax, 158
       Ins("mov", R("rdi"), I(4098)),           \* mov edi, 0x1002
       Ins0("syscall"),                         \* set fsbase
       Ins("mov", S(48), R("rdx")) >>           \* user_fs:48 = kernel fsbase

(***************************************************************************)
(* The assembly macros, macOS (darwin host, musl guest).                   *)
(*   guest  gs:0 = user gsbase, gs:48 = kernel gsbase                      *)
(*   host   gs:0 = kernel gsbase - 224, gs:48 = kernel stack,              *)
(*          gs:240 = init user gsbase                                      *)
(***************************************************************************)
SWITCH_TO_KERNEL_STACK_macos ==
    << Ins("mov", R("rsp"), S(48)),           \* rsp = kernel gsbase
       Ins("mov", R("rsp"), M("rsp", 48)) >>  \* rsp = kernel stack
SAVE_KERNEL_STACK_macos ==
    << Ins("mov", S(48), R("rsp")) >>
\* mutant: the word pushed is gs:48, the stashed host base
PUSH_USER_FSBASE_macos_Stash ==
    << Ins1("push", S(48)) >>
PUSH_USER_FSBASE_macos ==
    << Ins1("push", S(0)) >>
SWITCH_TO_KERNEL_FSBASE_macos ==
    << Ins("mov", R("rdi"), S(48)),           \* rdi = kernel gsbase
       Ins("mov", R("rax"), I(50331651)),     \* mov eax, 0x3000003
       Ins0("syscall") >>                     \* set gsbase
POP_USER_FSBASE_macos ==
    << Ins("mov", R("rdi"), M("rsp", 18 * 8)),  \* rdi = user gsbase
       Ins("mov", R("rsi"), S(0)),
       Ins("add", R("rsi"), I(224)),            \* rsi = kernel gsbase
       Ins("test", R("rdi"), R("rdi")),
       Ins1("jnz", I(2)),                       \* jnz 1f
       Ins("lea", R("rdi"), M("rsi", 30 * 8)),  \* 0: rdi = init user gsbase
       Ins("mov", M("rdi", 0), R("rdi")),       \* user_gs:0 = user gsbase
       Ins("mov", R("rax"), I(50331651)),       \* 1: mov eax, 0x3000003
       Ins0("syscall"),                         \* set gsbase
       Ins("mov", S(48), R("rsi")) >>           \* user_gs:48 = kernel gsbase

(***************************************************************************)
(* syscall_fn_entry and syscall_fn_return, with the macros of one OS.      *)
(***************************************************************************)
\* mutant: the gs_base slot is skipped without being stored
PushGsBaseSlot_Skip ==
    << Ins("lea", R("rsp"), M("rsp", -8)) >>
PushGsBaseSlot ==
    << Ins1("push", I(0)) >>                  \* ignore gs_base
\* mutant: rcx and rbx pushed in the other order
PushGeneralRegs_Swapped ==
    << Ins0("pushfq"),
       Ins1("push", M("r11", -8)),
       Ins1("push", R("r15")),
       Ins1("push", R("r14")),
       Ins1("push", R("r13")),
       Ins1("push", R("r12")),
       Ins1("push", R("r11")),
       Ins1("push", R("r10")),
       Ins1("push", R("r9")),
       Ins1("push", R("r8")),
       Ins1("push", R("r11")),
       Ins1("push", R("rbp")),
       Ins1("push", R("rdi")),
       Ins1("push", R("rsi")),
       Ins1("push", R("rdx")),
       Ins1("push", R("rbx")),
       Ins1("push", R("rcx")),
       Ins1("push", R("rax")) >>
PushGeneralRegs ==
    << Ins0("pushfq"),                        \* push rflags
       Ins1("push", M("r11", -8)),            \* push rip
       Ins1("push", R("r15")),
       Ins1("push", R("r14")),
       Ins1("push", R("r13")),
       Ins1("push", R("r12")),
       Ins1("push", R("r11")),
       Ins1("push", R("r10")),
       Ins1("push", R("r9")),
       Ins1("push", R("r8")),
       Ins1("push", R("r11")),                \* push rsp
       Ins1("push", R("rbp")),
       Ins1("push", R("rdi")),
       Ins1("push", R("rsi")),
       Ins1("push", R("rdx")),
       Ins1("push", R("rcx")),
       Ins1("push", R("rbx")),
       Ins1("push", R("rax")) >>
\* mutant: the saved frame pointer is not popped off first
RestoreCalleeSaved_NoSkip ==
    << Ins1("pop", R("rbx")),
       Ins1("pop", R("rbp")),
       Ins1("pop", R("r12")),
       Ins1("pop", R("r13")),
       Ins1("pop", R("r14")),
       Ins1("pop", R("r15")) >>
RestoreCalleeSaved ==
    << Ins1("pop", R("rbx")),
       Ins1("pop", R("rbx")),
       Ins1("pop", R("rbp")),
       Ins1("pop", R("r12")),
       Ins1("pop", R("r13")),
       Ins1("pop", R("r14")),
       Ins1("pop", R("r15")) >>
\* mutant: the top of the trap frame taken one word too high
syscall_fn_entry_OffByOne(SWITCH_TO_KERNEL_STACK, PUSH_USER_FSBASE, SWITCH_TO_KERNEL_FSBASE) ==
    << Ins("lea", R("r11"), M("rsp", 8)) >>
    \o SWITCH_TO_KERNEL_STACK
    \o << Ins1("pop", R("rsp")),
          Ins("lea", R("rsp"), M("rsp", 21 * 8)) >>
    \o PushGsBaseSlot
    \o PUSH_USER_FSBASE
    \o PushGeneralRegs
    \o SWITCH_TO_KERNEL_STACK
    \o RestoreCalleeSaved
    \o SWITCH_TO_KERNEL_FSBASE
    \o << Ins0("ret") >>
\* mutant: the top of the trap frame computed with add, which rewrites the flags
syscall_fn_entry_AddRsp(SWITCH_TO_KERNEL_STACK, PUSH_USER_FSBASE, SWITCH_TO_KERNEL_FSBASE) ==
    << Ins("lea", R("r11"), M("rsp", 8)) >>
    \o SWITCH_TO_KERNEL_STACK
    \o << Ins1("pop", R("rsp")),
          Ins("add", R("rsp"), I(20 * 8)) >>
    \o PushGsBaseSlot
    \o PUSH_USER_FSBASE
    \o PushGeneralRegs
    \o SWITCH_TO_KERNEL_STACK
    \o RestoreCalleeSaved
    \o SWITCH_TO_KERNEL_FSBASE
    \o << Ins0("ret") >>
syscall_fn_entry(SWITCH_TO_KERNEL_STACK, PUSH_USER_FSBASE, SWITCH_TO_KERNEL_FSBASE) ==
    << Ins("lea", R("r11"), M("rsp", 8)) >>   \* save rsp to r11 (clobber)
    \o SWITCH_TO_KERNEL_STACK
    \o << Ins1("pop", R("rsp")),
          Ins("lea", R("rsp"), M("rsp", 20 * 8)) >>  \* rsp = top of trap frame
    \o PushGsBaseSlot
    \o PUSH_USER_FSBASE
    \o PushGeneralRegs
    \o SWITCH_TO_KERNEL_STACK
    \o RestoreCalleeSaved
    \o SWITCH_TO_KERNEL_FSBASE
    \o << Ins0("ret") >>                      \* go back to Rust

\* mutant: the frame address pushed first, below the callee-saved registers
SaveCalleeSaved_FrameFirst ==
    << Ins1("push", R("rdi")),
       Ins1("push", R("r15")),
       Ins1("push", R("r14")),
       Ins1("push", R("r13")),
       Ins1("push", R("r12")),
       Ins1("push", R("rbp")),
       Ins1("push", R("rbx")) >>
SaveCalleeSaved ==
    << Ins1("push", R("r15")),
       Ins1("push", R("r14")),
       Ins1("push", R("r13")),
       Ins1("push", R("r12")),
       Ins1("push", R("rbp")),
       Ins1("push", R("rbx")),
       Ins1("push", R("rdi")) >>
\* mutant: the stack pointer loaded from the slot next to the rsp field
PopTrapFrame_WrongSlot ==
    << Ins1("pop", R("rax")),
       Ins1("pop", R("rbx")),
       Ins1("pop", R("rcx")),
       Ins1("pop", R("rdx")),
       Ins1("pop", R("rsi")),
       Ins1("pop", R("rdi")),
       Ins1("pop", R("rbp")),
       Ins1("pop", R("r8")),
       Ins1("pop", R("r8")),
       Ins1("pop", R("r9")),
       Ins1("pop", R("r10")),
       Ins1("pop", R("r11")),
       Ins1("pop", R("r12")),
       Ins1("pop", R("r13")),
       Ins1("pop", R("r14")),
       Ins1("pop", R("r15")),
       Ins1("pop", R("r11")),
       Ins0("popfq"),
       Ins("mov", R("rsp"), M("rsp", -(8 * 10))),
       Ins1("jmp", R("r11")) >>
PopTrapFrame ==
    << Ins1("pop", R("rax")),
       Ins1("pop", R("rbx")),
       Ins1("pop", R("rcx")),
       Ins1("pop", R("rdx")),
       Ins1("pop", R("rsi")),
       Ins1("pop", R("rdi")),
       Ins1("pop", R("rbp")),
       Ins1("pop", R("r8")),                  \* skip rsp
       Ins1("pop", R("r8")),
       Ins1("pop", R("r9")),
       Ins1("pop", R("r10")),
       Ins1("pop", R("r11")),
       Ins1("pop", R("r12")),
       Ins1("pop", R("r13")),
       Ins1("pop", R("r14")),
       Ins1("pop", R("r15")),
       Ins1("pop", R("r11")),                 \* r11 = rip
       Ins0("popfq"),                         \* pop rflags
       Ins("mov", R("rsp"), M("rsp", -(8 * 11))),  \* restore rsp
       Ins1("jmp", R("r11")) >>               \* restore rip
\* mutant: the routine returns to its caller without entering the guest
syscall_fn_return_Immediate(SAVE_KERNEL_STACK, POP_USER_FSBASE) ==
    << Ins0("ret") >>
syscall_fn_return(SAVE_KERNEL_STACK, POP_USER_FSBASE) ==
    SaveCalleeSaved
    \o SAVE_KERNEL_STACK
    \o << Ins("mov", R("rsp"), R("rdi")) >>
    \o POP_USER_FSBASE
    \o PopTrapFrame

\* the two builds (#[cfg(target_os = ...)])
EntryLinux ==
    syscall_fn_entry(SWITCH_TO_KERNEL_STACK_linux, PUSH_USER_FSBASE_linux,
                     SWITCH_TO_KERNEL_FSBASE_linux)
EntryMacos ==
    syscall_fn_entry(SWITCH_TO_KERNEL_STACK_macos, PUSH_USER_FSBASE_macos,
                     SWITCH_TO_KERNEL_FSBASE_macos)
ReturnLinux == syscall_fn_return(SAVE_KERNEL_STACK_linux, POP_USER_FSBASE_linux)
ReturnMacos == syscall_fn_return(SAVE_KERNEL_STACK_macos, POP_USER_FSBASE_macos)

EntryCode(o) == IF o = "linux" THEN EntryLinux ELSE EntryMacos
ReturnCode(o) == IF o = "linux" THEN ReturnLinux ELSE ReturnMacos
InEntry(o, rip) == rip \in EntryAddr..(EntryAddr + Len(EntryCode(o)) - 1)
InReturn(o, rip) == rip \in ReturnAddr..(ReturnAddr + Len(ReturnCode(o)) - 1)
InAsm(o, rip) == InEntry(o, rip) \/ InReturn(o, rip)
Fetch(o, rip) ==
    IF InEntry(o, rip) THEN EntryCode(o)[rip - EntryAddr + 1]
    ELSE ReturnCode(o)[rip - ReturnAddr + 1]

(***************************************************************************)
(* x86-64 semantics of the instructions used.  c is the register file, m   *)
(* the memory.  An access outside the mapped memory faults: the thread     *)
(* stops at FaultAddr.                                                     *)
(***************************************************************************)
FaultAddr == 0 - 1

EA(c, o) == IF o.k = "abs" THEN o.d ELSE c[o.r] + o.d
IsMem(o) == o.k \in {"mem", "seg", "abs"}
Val(c, m, o) ==
    CASE o.k = "reg" -> c[o.r]
      [] o.k = "imm" -> o.d
      [] OTHER -> m[EA(c, o)]
OpAddrs(c, o) == IF IsMem(o) THEN {EA(c, o)} ELSE {}

\* the words an instruction reads or writes
Touches(c, ins) ==
    CASE ins.op = "mov" -> OpAddrs(c, ins.a) \cup OpAddrs(c, ins.b)
      [] ins.op = "push" -> OpAddrs(c, ins.a) \cup {c.rsp - 8}
      [] ins.op = "pushfq" -> {c.rsp - 8}
      [] ins.op \in {"pop", "popfq", "ret"} -> {c.rsp}
      [] OTHER -> {}
\* the words an instruction writes
Writes(c, ins) ==
    CASE ins.op = "mov" -> OpAddrs(c, ins.a)
      [] ins.op \in {"push", "pushfq"} -> {c.rsp - 8}
      [] OTHER -> {}

\* the system call that sets the TLS base: arch_prctl(ARCH_SET_FS, rsi) on
\* Linux, the machine-dependent call 3 (set cthread self, rdi) on macOS.  The
\* syscall instruction leaves the return address in rcx and rflags in r11.
\* mutant: the system call's result is not delivered in rax
Syscall_KeepRax(o, c) ==
    LET isSet == IF o = "linux" THEN c.rax = 158 /\ c.rdi = 4098
                 ELSE c.rax = 50331651
        base == IF o = "linux" THEN c.rsi ELSE c.rdi
    IN  [c EXCEPT !.tls = IF isSet THEN base ELSE @,
                  !.rcx = c.rip + 1,
                  !.r11 = c.rflags,
                  !.rip = c.rip + 1]
Syscall(o, c) ==
    LET isSet == IF o = "linux" THEN c.rax = 158 /\ c.rdi = 4098
                 ELSE c.rax = 50331651
        base == IF o = "linux" THEN c.rsi ELSE c.rdi
    IN  [c EXCEPT !.tls = IF isSet THEN base ELSE @,
                  !.rax = IF isSet THEN 0 ELSE 0 - 38,
                  !.rcx = c.rip + 1,
                  !.r11 = c.rflags,
                  !.rip = c.rip + 1]

Push(c, m, v) ==
    [c |-> [c EXCEPT !.rsp = @ - 8, !.rip = @ + 1],
     m |-> [m EXCEPT ![c.rsp - 8] = v]]
\* pop r: the word at rsp, then rsp + 8, then r (pop rsp leaves the word in rsp)
Pop(c, m, r) ==
    [c |-> [[c EXCEPT !.rsp = @ + 8, !.rip = @ + 1] EXCEPT ![r] = m[c.rsp]],
     m |-> m]

\* one instruction; af is the undefined auxiliary-carry flag after test
Exec(o, c, m, ins, af) ==
    LET next == [c EXCEPT !.rip = @ + 1] IN
    IF ~(Touches(c, ins) \subseteq DOMAIN m)
    THEN [c |-> [c EXCEPT !.rip = FaultAddr], m |-> m]
    ELSE
    CASE ins.op = "lea" ->
           [c |-> [next EXCEPT ![ins.a.r] = EA(c, ins.b)], m |-> m]
      [] ins.op = "mov" ->
           IF IsMem(ins.a)
           THEN [c |-> next, m |-> [m EXCEPT ![EA(c, ins.a)] = Val(c, m, ins.b)]]
           ELSE [c |-> [next EXCEPT ![ins.a.r] = Val(c, m, ins.b)], m |-> m]
      [] ins.op = "push" -> Push(c, m, Val(c, m, ins.a))
      [] ins.op = "pushfq" -> Push(c, m, c.rflags)
      [] ins.op = "pop" -> Pop(c, m, ins.a.r)
      [] ins.op = "popfq" ->
           [c |-> [next EXCEPT !.rsp = @ + 8, !.rflags = Popfq(@, m[c.rsp])],
            m |-> m]
      [] ins.op = "test" ->
           [c |-> [next EXCEPT !.rflags =
                       ResultFlags(@, BitAnd(c[ins.a.r], c[ins.b.r]), af)],
            m |-> m]
      [] ins.op = "add" ->
           [c |-> [next EXCEPT ![ins.a.r] = @ + ins.b.d,
                               !.rflags = ResultFlags(@, c[ins.a.r] + ins.b.d,
                                   (c[ins.a.r] % 16) + (ins.b.d % 16) >= 16)],
            m |-> m]
      [] ins.op = "jnz" ->
           [c |-> [c EXCEPT !.rip = IF ZF(c.rflags) THEN @ + 1 ELSE @ + 1 + ins.a.d],
            m |-> m]
      [] ins.op = "syscall" -> [c |-> Syscall(o, c), m |-> m]
      [] ins.op = "ret" ->
           [c |-> [c EXCEPT !.rsp = @ + 8, !.rip = m[c.rsp]], m |-> m]
      [] ins.op = "jmp" -> [c |-> [c EXCEPT !.rip = c[ins.a.r]], m |-> m]

(***************************************************************************)
(* State.                                                                  *)
(***************************************************************************)
VARIABLES
    os,     \* os[t]: the build the thread runs, "linux" or "macos"
    cpu,    \* cpu[t]: the thread's register file
    mem,    \* the memory, shared by all threads
    self,   \* self[t]: run_fncall's &mut self, the frame being run
    pending,\* pending[t]: the frame the host has prepared for its next call, or 0
    left,   \* left[t]: what the bounds still allow the thread to do
    gh      \* gh[t]: history kept for stating the properties
vars == <<os, cpu, mem, self, pending, left, gh>>

\* the host's TLS base: the block itself (on macOS the word at gs:0 holds
\* the pthread address, 224 below)
HostBase(t) == HostTcb(t)
HostSelfWord(o, t) == IF o = "linux" THEN HostBase(t) ELSE HostBase(t) - 224
KernelStackSlot(o, t) == IF o = "linux" THEN HostBase(t) + 64 ELSE HostBase(t) + 48
InitUserBase(o, t) == IF o = "linux" THEN HostBase(t) + 72 ELSE HostBase(t) + 240

ZeroRegs == [r \in Regs |-> 0]
\* rflags of running code: IF and the reserved bit 1, plus status flags
FlagsPlain == 514
FlagsZP == 582

\* UserContext::default(): every field zero
\* with the entry point and the stack pointer the host's loader sets
FreshFrame(t, f) ==
    [a \in FrameArea(f) |->
        CASE a = f + FieldOff("rip") -> 400
          [] a = f + FieldOff("rsp") -> GuestStackTop(t)
          [] OTHER -> 0]
\* a frame left by some earlier use: every field set, TLS block 1
UsedFrame(t, f) ==
    [a \in FrameArea(f) |->
        CASE a = f + FieldOff("rip") -> 402
          [] a = f + FieldOff("rsp") -> GuestStackTop(t)
          [] a = f + FieldOff("rflags") -> FlagsZP
          [] a = f + FieldOff("fsbase") -> GuestTls(t, 1)
          [] OTHER -> 48 + ((a - f) \div 8)]

InitMem(o) ==
    [a \in Addrs |->
        LET t == CHOOSE u \in Threads : a \in ThreadAddrs(u) IN
        CASE a = HostBase(t) -> HostSelfWord(o[t], t)
          [] a = GuestTls(t, 1) -> GuestTls(t, 1)
          [] a \in FrameArea(Frame(t, 1)) -> FreshFrame(t, Frame(t, 1))[a]
          [] a \in FrameArea(Frame(t, 2)) -> UsedFrame(t, Frame(t, 2))[a]
          [] OTHER -> 0]

InitCpu(t) ==
    [ZeroRegs EXCEPT !.rip = HostIdle, !.rsp = HostStackTop(t),
                     !.rflags = FlagsPlain, !.tls = HostBase(t)]

NoSnap == [r \in Regs |-> 0]
InitGh ==
    [pre |-> NoSnap,        \* guest registers right before its last call
     atcall |-> NoSnap,     \* host registers right before the last call of syscall_fn_return
     fr |-> [a \in {} |-> 0],        \* frame words when syscall_fn_return was last called
     wr |-> {},             \* words stored to by the assembly routine now running
     entered |-> 0,         \* frame words base captured by the last Enter
     edited |-> {},         \* frame words the host edited since the last Enter
     firstTls |-> [k \in 1..2 |-> 0],  \* TLS base the guest of frame k had after its first Resume
     hostTls0 |-> 0,        \* TLS base active when syscall_fn_return was first called
     justResumed |-> FALSE, \* the guest has done nothing since syscall_fn_return's jmp
     calls |-> 0,           \* calls of syscall_fn_return
     ks |-> << >>,          \* the frame (1 or 2) of each call so far
     tlsEdited |-> FALSE,   \* the host edited a frame's TLS field
     selfWritten |-> FALSE, \* the guest stored into a reserved TLS word
     wroteNow |-> FALSE,    \* ... since syscall_fn_return was last called
     resumes |-> 0,         \* completed Resumes
     enters |-> 0]          \* completed Enters

InitCommon(o, budget) ==
    /\ os = o
    /\ cpu = [t \in Threads |-> InitCpu(t)]
    /\ mem = InitMem(o)
    /\ self = [t \in Threads |-> 0]
    /\ pending = [t \in Threads |-> 0]
    /\ left = budget
    /\ gh = [t \in Threads |-> InitGh]

Budget(c, e) == [cycles |-> c, edits |-> e]
\* one thread runs; the build is either OS
Init ==
    \E o \in {"linux", "macos"} :
        InitCommon([t \in Threads |-> o],
                   [t \in Threads |-> IF t = 1
                                      THEN Budget(MaxCycles, MaxEdits)
                                      ELSE Budget(0, 0)])

(***************************************************************************)
(* The host: UserContext::run_fncall and the code around it.               *)
(***************************************************************************)
RegIndex(r) == FieldIndex(r)
CalleeSaved == {"rbx", "rbp", "r12", "r13", "r14", "r15"}

\* registers of host code about to call syscall_fn_return(self): variant k
HostRegs(t, k, f, tls) ==
    [r \in Regs |->
        CASE r = "rdi" -> f
          [] r = "rsp" -> HostStackTop(t) - 16 * (k - 1)
          [] r = "rip" -> HostRA
          [] r = "rflags" -> IF k = 1 THEN FlagsPlain ELSE FlagsZP
          [] r = "tls" -> tls
          [] OTHER -> 200 + 20 * k + RegIndex(r)]

FrameNo(t, f) == IF f = Frame(t, 1) THEN 1 ELSE 2
FrameSnapshot(m, f) == [a \in FrameArea(f) |-> m[a]]

\* run_fncall, line 35: unsafe { syscall_fn_return(self) }.  The call
\* instruction pushes the return address and enters the routine.
CallInsn(c, m, target) ==
    [c |-> [c EXCEPT !.rsp = @ - 8, !.rip = target],
     m |-> [m EXCEPT ![c.rsp - 8] = c.rip]]
RunFncallCall(t) ==
    /\ cpu[t].rip = HostIdle
    /\ left[t].cycles > 0
    /\ \E k \in 1..2 :
         LET f == Frame(t, k)
             c == HostRegs(t, k, f, cpu[t].tls)
             r == CallInsn(c, mem, ReturnAddr)
         IN  /\ pending[t] \in {0, f}
             /\ cpu' = [cpu EXCEPT ![t] = r.c]
             /\ mem' = r.m
             /\ self' = [self EXCEPT ![t] = f]
             /\ gh' = [gh EXCEPT ![t].atcall = c,
                                 ![t].fr = FrameSnapshot(mem, f),
                                 ![t].wr = {},
                                 ![t].wroteNow = FALSE,
                                 ![t].calls = @ + 1,
                                 ![t].ks = Append(@, k),
                                 ![t].hostTls0 = IF gh[t].calls = 0 THEN c.tls ELSE @]
    /\ pending' = [pending EXCEPT ![t] = 0]
    /\ left' = [left EXCEPT ![t].cycles = @ - 1]
    /\ UNCHANGED os

\* run_fncall, line 37: self.trap_num = 0x100
\* mutant: the store of trap_num is missing
SetTrapNum_NoStore(f, c, m) ==
    [c |-> [c EXCEPT !.rip = HostRA2], m |-> m]
SetTrapNum(f, c, m) ==
    [c |-> [c EXCEPT !.rip = HostRA2], m |-> [m EXCEPT ![f + TrapNumOff] = 256]]
RunFncallSetTrapNum(t) ==
    /\ cpu[t].rip = HostRA
    /\ mem' = SetTrapNum(self[t], cpu[t], mem).m
    /\ cpu' = [cpu EXCEPT ![t] = SetTrapNum(self[t], cpu[t], mem).c]
    /\ UNCHANGED <<os, self, pending, left, gh>>

\* run_fncall, line 38: self.error_code = 0, then the return to the caller
SetErrorCode(f, c, m) ==
    [c |-> [c EXCEPT !.rip = HostIdle], m |-> [m EXCEPT ![f + ErrorCodeOff] = 0]]
RunFncallSetErrorCode(t) ==
    /\ cpu[t].rip = HostRA2
    /\ mem' = SetErrorCode(self[t], cpu[t], mem).m
    /\ cpu' = [cpu EXCEPT ![t] = SetErrorCode(self[t], cpu[t], mem).c]
    /\ UNCHANGED <<os, self, pending, left, gh>>

\* Before a run_fncall call the host edits the frame it is about to run: a
\* return value, a redirect, the flags, the TLS base (UserContext's fields are
\* public).
MutChoices(t) ==
    { <<"rax", 99>>, <<"rip", 410>>, <<"rflags", 1543>>,
      <<"fsbase", 0>>, <<"fsbase", GuestTls(t, 2)>> }
HostMutate(t) ==
    /\ cpu[t].rip = HostIdle
    /\ left[t].cycles > 0
    /\ left[t].edits > 0
    /\ pending[t] = 0
    /\ \E k \in 1..2, ch \in MutChoices(t) :
         LET a == Frame(t, k) + FieldOff(ch[1]) IN
         /\ mem[a] # ch[2]
         /\ mem' = [mem EXCEPT ![a] = ch[2]]
         /\ pending' = [pending EXCEPT ![t] = Frame(t, k)]
         /\ gh' = [gh EXCEPT ![t].edited = @ \cup {a},
                             ![t].tlsEdited = @ \/ ch[1] = "fsbase"]
    /\ left' = [left EXCEPT ![t].edits = @ - 1]
    /\ UNCHANGED <<os, cpu, self>>

(***************************************************************************)
(* The guest: arbitrary code that ends in `call syscall_fn_entry`.         *)
(***************************************************************************)
GuestRegs(t, k, tls) ==
    [r \in Regs |->
        CASE r = "rsp" -> GuestStackTop(t) - 8 * (k - 1)
          [] r = "rip" -> 394 + 10 * k
          [] r = "rflags" -> IF k = 1 THEN FlagsPlain ELSE 1667
          [] r = "tls" -> tls
          [] OTHER -> 100 + 20 * k + RegIndex(r)]

\* The guest program: where it resumes decides what it computes and from where
\* it calls next (entry 400 -> call at 404; after that call, 405 -> call at
\* 414; after that one, 415 -> call at 404; anywhere else -> call at 414).
GuestVariant(rip) == IF rip \in {400, 415} THEN 1 ELSE 2

\* the guest's registers when it reaches its next call instruction
GuestBeforeCall(t, c) == GuestRegs(t, GuestVariant(c.rip), c.tls)

\* the guest computes and executes call syscall_fn_entry
GuestCall(t) ==
    /\ cpu[t].rip \in GuestCode
    /\ LET c == GuestBeforeCall(t, cpu[t])
           r == CallInsn([c EXCEPT !.rip = @ + 1], mem, EntryAddr)
       IN
         /\ cpu' = [cpu EXCEPT ![t] = r.c]
         /\ mem' = r.m
         /\ gh' = [gh EXCEPT ![t].pre = c, ![t].wr = {}, ![t].justResumed = FALSE]
    /\ UNCHANGED <<os, self, pending, left>>

\* the guest stores into the self-pointer word of its TLS block
GuestWriteSelf(t) ==
    /\ cpu[t].rip \in GuestCode
    /\ left[t].edits > 0
    /\ \E v \in {0, GuestTls(t, 1), GuestTls(t, 2)} :
         /\ mem[cpu[t].tls] # v
         /\ mem' = [mem EXCEPT ![cpu[t].tls] = v]
    /\ gh' = [gh EXCEPT ![t].selfWritten = TRUE, ![t].wroteNow = TRUE,
                        ![t].justResumed = FALSE]
    /\ left' = [left EXCEPT ![t].edits = @ - 1]
    /\ UNCHANGED <<os, cpu, self, pending>>

(***************************************************************************)
(* One instruction of syscall_fn_entry or syscall_fn_return.               *)
(***************************************************************************)
GhStep(g, t, c, ins, r) ==
    IF r.c.rip = FaultAddr THEN g
    ELSE [g EXCEPT
            !.wr = @ \cup Writes(c, ins),
            !.resumes = IF ins.op = "jmp" THEN @ + 1 ELSE @,
            !.justResumed = (ins.op = "jmp"),
            !.firstTls = IF ins.op = "jmp" /\ g.firstTls[FrameNo(t, self[t])] = 0
                         THEN [@ EXCEPT ![FrameNo(t, self[t])] = c.tls] ELSE @,
            !.enters = IF ins.op = "ret" THEN @ + 1 ELSE @,
            !.entered = IF ins.op = "ret" THEN self[t] ELSE @,
            !.edited = IF ins.op = "ret" THEN {} ELSE @]

Step(t) ==
    /\ InAsm(os[t], cpu[t].rip)
    /\ LET c == cpu[t]
           ins == Fetch(os[t], c.rip)
       IN  \E af \in (IF ins.op = "test" THEN BOOLEAN ELSE {FALSE}) :
             LET r == Exec(os[t], c, mem, ins, af) IN
             /\ cpu' = [cpu EXCEPT ![t] = r.c]
             /\ mem' = r.m
             /\ gh' = [gh EXCEPT ![t] = GhStep(@, t, c, ins, r)]
    /\ UNCHANGED <<os, self, pending, left>>

Next ==
    \E t \in Threads :
        \/ RunFncallCall(t)
        \/ Step(t)
        \/ GuestCall(t)
        \/ GuestWriteSelf(t)
        \/ RunFncallSetTrapNum(t)
        \/ RunFncallSetErrorCode(t)
        \/ HostMutate(t)

Spec == Init /\ [][Next]_vars

\* every access of the run stays inside the mapped memory
NoFault == \A t \in Threads : cpu[t].rip # FaultAddr

(***************************************************************************)
(* Two threads of one Linux process, each running its own guest.  The      *)
(* host does not edit frames and the guests keep to their TLS contract.    *)
(***************************************************************************)
InitMT ==
    InitCommon([t \in Threads |-> "linux"],
               [t \in Threads |-> Budget(MTCycles, 0)])
NextMT ==
    \E t \in Threads :
        \/ RunFncallCall(t)
        \/ Step(t)
        \/ GuestCall(t)
        \/ RunFncallSetTrapNum(t)
        \/ RunFncallSetErrorCode(t)
SpecMT == InitMT /\ [][NextMT]_vars

\* One thread run alone from (c, m) until run_fncall has returned; f is the
\* frame being run.  The undefined flag of test is taken as clear: it is
\* overwritten by popfq before the guest runs.
CycleSteps == Len(EntryLinux) + Len(ReturnLinux) + Len(EntryMacos) + Len(ReturnMacos)
RECURSIVE RunToIdle(_, _, _, _, _, _)
RunToIdle(o, t, f, c, m, fuel) ==
    IF fuel = 0 \/ c.rip \in {HostIdle, FaultAddr} THEN [c |-> c, m |-> m]
    ELSE LET r == IF InAsm(o, c.rip) THEN Exec(o, c, m, Fetch(o, c.rip), FALSE)
                  ELSE IF c.rip \in GuestCode
                       THEN CallInsn([GuestBeforeCall(t, c) EXCEPT !.rip = @ + 1],
                                     m, EntryAddr)
                  ELSE IF c.rip = HostRA THEN SetTrapNum(f, c, m)
                  ELSE IF c.rip = HostRA2 THEN SetErrorCode(f, c, m)
                  ELSE [c |-> [c EXCEPT !.rip = FaultAddr], m |-> m]
         IN  RunToIdle(o, t, f, r.c, r.m, fuel - 1)
\* the run_fncall calls ks (frame numbers) of thread t, one after the other
RECURSIVE SeqThread(_, _, _, _, _)
SeqThread(o, t, ks, c, m) ==
    IF ks = << >> THEN [c |-> c, m |-> m]
    ELSE LET f == Frame(t, Head(ks))
             call == CallInsn(HostRegs(t, Head(ks), f, c.tls), m, ReturnAddr)
             r == RunToIdle(o, t, f, call.c, call.m, CycleSteps)
         IN  SeqThread(o, t, Tail(ks), r.c, r.m)
\* thread 1 run to its end, then thread 2
Sequential(o, ks1, ks2) ==
    LET r1 == SeqThread(o[1], 1, ks1, InitCpu(1), InitMem(o))
        r2 == SeqThread(o[2], 2, ks2, InitCpu(2), r1.m)
    IN  [cpu |-> [t \in Threads |-> IF t = 1 THEN r1.c ELSE r2.c], mem |-> r2.m]

(***************************************************************************)
(* Properties.                                                             *)
(***************************************************************************)
FrameField(m, f, name) == m[f + FieldOff(name)]
\* run_fncall's call of syscall_fn_return has just come back (Enter's ret)
AfterEnter(t) == cpu[t].rip = HostRA
\* run_fncall has returned to its caller at least once
AfterRun(t) == cpu[t].rip = HostIdle /\ gh[t].enters > 0
\* syscall_fn_return has just jumped into the guest
AfterResume(t) == cpu[t].rip \in GuestCode /\ gh[t].justResumed
\* the general-purpose registers other than the stack pointer
DataRegs == GPR \ {"rsp"}

\* C1: whenever run_fncall has returned to its caller, the frame it was
\* called on has trap_num = 0x100 and error_code = 0, whatever the frame
\* held before and whatever the guest did.
C1_Sentinel ==
    \A t \in Threads :
        AfterRun(t) =>
            /\ mem[self[t] + TrapNumOff] = 256
            /\ mem[self[t] + ErrorCodeOff] = 0
\* a run has returned on a frame whose two fields held other values at the call
C1_Witness ==
    \E t \in Threads :
        /\ AfterRun(t)
        /\ gh[t].fr[self[t] + TrapNumOff] \notin {0, 256}
        /\ gh[t].fr[self[t] + ErrorCodeOff] # 0

\* C2 as stated: right after Enter the frame's rip is the return address of
\* the guest's call and every general-purpose register field, r11 included,
\* holds what the guest had in that register right before the call.
C2_AsStated ==
    \A t \in Threads :
        AfterEnter(t) =>
            /\ FrameField(mem, self[t], "rip") = gh[t].pre.rip + 1
            /\ \A r \in DataRegs : FrameField(mem, self[t], r) = gh[t].pre[r]
\* C2 (amended): right after Enter the frame's rip is the return address of
\* the guest's call (the word on top of the guest stack at entry), every
\* general-purpose register field other than r11 holds what the guest had
\* in that register right before the call, and the r11 field holds the
\* guest's stack pointer before the call.
C2_Capture ==
    \A t \in Threads :
        AfterEnter(t) =>
            /\ FrameField(mem, self[t], "rip") = gh[t].pre.rip + 1
            /\ FrameField(mem, self[t], "rip") = mem[gh[t].pre.rsp - 8]
            /\ \A r \in DataRegs \ {"r11"} :
                   FrameField(mem, self[t], r) = gh[t].pre[r]
            /\ FrameField(mem, self[t], "r11") = gh[t].pre.rsp
\* an Enter has captured registers that differ from what the frame held
C2_Witness ==
    \E t \in Threads :
        /\ AfterEnter(t)
        /\ \A r \in DataRegs : gh[t].fr[self[t] + FieldOff(r)] # gh[t].pre[r]
        /\ gh[t].pre.r11 # gh[t].pre.rsp

\* C3 as stated: Enter followed by Resume is the identity on guest state.
\* When the host resumes the captured frame without editing it the guest
\* continues after its call with all 16 integer registers, the flags and
\* the TLS base (the guest not having written its reserved TLS words) as
\* before the call; in any case every register the guest sees is the frame's
\* field as the host left it.
C3_AsStated ==
    \A t \in Threads :
        (AfterResume(t) /\ gh[t].enters > 0) =>
            /\ \A r \in GPR : cpu[t][r] = gh[t].fr[self[t] + FieldOff(r)]
            /\ cpu[t].rip = gh[t].fr[self[t] + FieldOff("rip")]
            /\ (gh[t].edited = {} /\ gh[t].entered = self[t]) =>
                   /\ cpu[t].rip = gh[t].pre.rip + 1
                   /\ \A r \in GPR \cup {"rflags"} : cpu[t][r] = gh[t].pre[r]
                   /\ ~gh[t].selfWritten => cpu[t].tls = gh[t].pre.tls

\* C4: over any number of Resume/Enter cycles, with the guest not writing
\* the reserved TLS words and the host not editing a frame's TLS field, the
\* active TLS base right after every Enter is the host base that was active
\* when syscall_fn_return was first called, and the active TLS base right
\* after every Resume of a frame is the base that frame's guest got at its
\* first Resume.
C4_TlsPreserved ==
    \A t \in Threads :
        (~gh[t].tlsEdited /\ ~gh[t].selfWritten) =>
            /\ AfterEnter(t) => cpu[t].tls = gh[t].hostTls0
            /\ AfterResume(t) => cpu[t].tls = gh[t].firstTls[FrameNo(t, self[t])]
\* the second Enter and the second Resume of one frame, nothing edited
C4_Witness ==
    \E t \in Threads :
        /\ ~gh[t].tlsEdited /\ ~gh[t].selfWritten
        /\ gh[t].enters = 1 /\ gh[t].resumes = 2
        /\ gh[t].entered = self[t]
        /\ AfterResume(t)
        /\ cpu[t].tls # gh[t].hostTls0

\* C5: whenever syscall_fn_return was called with a frame whose TLS field is
\* zero, the guest starts with the TLS base at the fixed initial-guest
\* address (host base + 72 on Linux, + 240 on macOS) and the word at offset
\* 0 of that block holds that same non-zero address: on the first such
\* Resume and on every later one.  Once set, the word keeps that value
\* through every later Resume and Enter of any frame, as long as the guest
\* does not store into it.
C5_Fallback ==
    \A t \in Threads :
        /\ (AfterResume(t) /\ gh[t].fr[self[t] + FieldOff("fsbase")] = 0) =>
                /\ cpu[t].tls = InitUserBase(os[t], t)
                /\ cpu[t].tls = HostBase(t) + (IF os[t] = "linux" THEN 72 ELSE 240)
                /\ mem[cpu[t].tls] = cpu[t].tls
                /\ mem[cpu[t].tls] # 0
        /\ ((\E k \in 1..2 : gh[t].firstTls[k] = InitUserBase(os[t], t))
                /\ ~gh[t].selfWritten) =>
                mem[InitUserBase(os[t], t)] = InitUserBase(os[t], t)
\* a second Resume with a zero TLS field, the slot having been set by the first
C5_Witness ==
    \E t \in Threads :
        /\ AfterResume(t)
        /\ gh[t].fr[self[t] + FieldOff("fsbase")] = 0
        /\ gh[t].resumes = 2
        /\ gh[t].firstTls[1] = InitUserBase(os[t], t)

\* C7 as stated: when Resume hands control to the guest, the value staged
\* for the final jump (the frame's rip) is in no guest register whose own
\* frame field does not hold it; in particular the guest's r11 is the
\* frame's r11 field.
C7_AsStated ==
    \A t \in Threads :
        AfterResume(t) =>
            /\ cpu[t].r11 = gh[t].fr[self[t] + FieldOff("r11")]
            /\ \A r \in GPR :
                   cpu[t][r] = gh[t].fr[self[t] + FieldOff("rip")]
                       => gh[t].fr[self[t] + FieldOff(r)] = cpu[t][r]

C9_HostContext ==
    \A t \in Threads :
        (gh[t].enters = gh[t].calls /\ gh[t].calls > 0 /\ cpu[t].rip # HostIdle) =>
            /\ cpu[t].rip \in {HostRA, HostRA2}
            /\ cpu[t].rip = HostRA =>
                   /\ cpu[t].rip = gh[t].atcall.rip
                   /\ cpu[t].rsp = gh[t].atcall.rsp
                   /\ \A r \in CalleeSaved : cpu[t][r] = gh[t].atcall[r]
\* the second cycle has come back; the host's callee-saved values differ
\* from what the guest held in those registers
C9_Witness ==
    \E t \in Threads :
        /\ AfterEnter(t) /\ gh[t].enters = 2
        /\ \A r \in CalleeSaved : gh[t].atcall[r] # gh[t].pre[r]

\* C10: the 20 words Enter stores are the register area of the frame that
\* the most recent syscall_fn_return received in rdi, in every cycle and
\* wherever the frame lies.
C10_InPlace ==
    \A t \in Threads :
        AfterEnter(t) =>
            /\ gh[t].wr = FrameRegArea(gh[t].atcall.rdi)
            /\ gh[t].atcall.rdi = self[t]
\* the second Enter has filled a frame other than the one the first filled
C10_Witness ==
    \E t \in Threads :
        /\ AfterEnter(t) /\ gh[t].enters = 2
        /\ gh[t].entered # 0 /\ gh[t].atcall.rdi # Frame(t, 1)
        /\ \A a \in FrameRegArea(self[t]) \ {self[t] + FieldOff("gsbase")} :
               mem[a] # gh[t].fr[a]

\* C6: two threads, each with its own TLS block, host stack and frames.
\* Every instruction of either routine touches only words of the thread
\* executing it, and when both threads have finished, however their steps
\* interleaved, the registers of each thread and the whole memory (frames,
\* TLS words, stacks) are what running thread 1 to its end and then
\* thread 2 gives.
AllDone == \A t \in Threads : cpu[t].rip = HostIdle /\ left[t].cycles = 0
C6_Isolation ==
    /\ \A t \in Threads :
           InAsm(os[t], cpu[t].rip) =>
               Touches(cpu[t], Fetch(os[t], cpu[t].rip)) \subseteq ThreadAddrs(t)
    /\ AllDone =>
           LET s == Sequential(os, gh[1].ks, gh[2].ks) IN
           /\ cpu = s.cpu
           /\ mem = s.mem
\* both threads are inside their last cycle at once: the guest of thread 1
\* has been resumed while thread 2 is in the middle of syscall_fn_entry
C6_Witness ==
    /\ \A t \in Threads : gh[t].calls = MTCycles /\ left[t].cycles = 0
    /\ AfterResume(1)
    /\ InEntry(os[2], cpu[2].rip) /\ gh[2].wr # {}

\* the address of the pushfq of syscall_fn_entry
PushfqAddr(o) ==
    EntryAddr - 1 + CHOOSE i \in 1..Len(EntryCode(o)) : EntryCode(o)[i].op = "pushfq"

\* C11: Enter records the guest's control state as if its call had returned.
\* Right after Enter the frame's rip is the return address that was on top of
\* the guest stack at entry, the frame's rsp is the entry stack pointer plus
\* 8 (the stack pointer before the call instruction) and the frame's flags
\* field is the guest's flags register at the call; up to and including the
\* point where pushfq is about to run, no instruction of Enter has changed
\* the flags register.
C11_ControlState ==
    \A t \in Threads :
        /\ AfterEnter(t) =>
               /\ FrameField(mem, self[t], "rip") = mem[gh[t].pre.rsp - 8]
               /\ FrameField(mem, self[t], "rip") = gh[t].pre.rip + 1
               /\ FrameField(mem, self[t], "rsp") = (gh[t].pre.rsp - 8) + 8
               /\ FrameField(mem, self[t], "rflags") = gh[t].pre.rflags
        /\ cpu[t].rip \in EntryAddr..PushfqAddr(os[t]) =>
               cpu[t].rflags = gh[t].pre.rflags
\* an Enter has recorded flags with status bits set, a stack pointer and a
\* return address that all differ from what the frame held at the call
C11_Witness ==
    \E t \in Threads :
        /\ AfterEnter(t)
        /\ gh[t].pre.rflags = 1667
        /\ gh[t].fr[self[t] + FieldOff("rflags")] # gh[t].pre.rflags
        /\ gh[t].fr[self[t] + FieldOff("rsp")] # gh[t].pre.rsp
        /\ gh[t].fr[self[t] + FieldOff("rip")] # gh[t].pre.rip + 1

\* the address of SAVE_KERNEL_STACK's store in syscall_fn_return, and of the
\* last instruction of POP_USER_FSBASE (the store into the guest's stash slot)
SaveSlotAddr == ReturnAddr + Len(SaveCalleeSaved)
StashAddr(o) == ReturnAddr + Len(ReturnCode(o)) - Len(PopTrapFrame) - 1
\* the host stack pointer SAVE_KERNEL_STACK stores: below the return address
\* of run_fncall's call and the seven words syscall_fn_return pushes
SavedHostSp(t) == gh[t].atcall.rsp - 8 - 8 * Len(SaveCalleeSaved)

\* C12: whenever guest code is executing between a Resume and the next
\* Enter, offset 48 of the active guest TLS block holds the host TLS base,
\* the host-stack slot of the host TLS block holds the host stack pointer
\* that Resume saved, and the word at that stack pointer is the address of
\* the active frame; the stack pointer and TLS base Enter hands back to the
\* host are the ones Resume left.  In Resume the host-stack slot is stored
\* while the host TLS base is active and the stash slot is stored when the
\* guest TLS base has been installed.
C12_SlotContract ==
    \A t \in Threads :
        /\ cpu[t].rip \in GuestCode =>
               /\ mem[cpu[t].tls + 48] = gh[t].atcall.tls
               /\ mem[cpu[t].tls + 48] = HostBase(t)
               /\ mem[KernelStackSlot(os[t], t)] = SavedHostSp(t)
               /\ mem[mem[KernelStackSlot(os[t], t)]] = self[t]
        /\ AfterEnter(t) =>
               /\ cpu[t].tls = gh[t].atcall.tls
               /\ cpu[t].rsp = gh[t].atcall.rsp
        /\ cpu[t].rip = SaveSlotAddr =>
               /\ cpu[t].tls = gh[t].atcall.tls
               /\ Writes(cpu[t], Fetch(os[t], cpu[t].rip)) = {KernelStackSlot(os[t], t)}
        /\ cpu[t].rip = StashAddr(os[t]) =>
               /\ cpu[t].tls # gh[t].atcall.tls
               /\ cpu[t].tls =
                      (IF gh[t].fr[self[t] + FieldOff("fsbase")] = 0
                       THEN InitUserBase(os[t], t)
                       ELSE gh[t].fr[self[t] + FieldOff("fsbase")])
               /\ Writes(cpu[t], Fetch(os[t], cpu[t].rip)) = {cpu[t].tls + 48}
\* the guest of the second cycle is running on another frame and another
\* host stack depth than the first, the slots holding the second cycle's values
C12_Witness ==
    \E t \in Threads :
        /\ cpu[t].rip \in GuestCode
        /\ gh[t].resumes = 2
        /\ gh[t].entered # self[t]
        /\ mem[KernelStackSlot(os[t], t)] = SavedHostSp(t)
        /\ mem[mem[KernelStackSlot(os[t], t)]] = self[t]

\* C13: on each thread Resumes and Enters alternate, starting with a Resume.
\* Every call of syscall_fn_return is followed by at most one Resume and that
\* by at most one Enter before the next call; host code after the call runs
\* only when the cycle's Enter has happened (as many Enters as calls), guest
\* code runs only inside a cycle whose Resume has happened and whose Enter
\* has not; and from the call until Enter has returned the frame's trap_num
\* and error_code still hold the values they had at the call.
C13_Alternation ==
    \A t \in Threads :
        /\ gh[t].enters <= gh[t].resumes /\ gh[t].resumes <= gh[t].enters + 1
        /\ gh[t].resumes <= gh[t].calls /\ gh[t].calls <= gh[t].resumes + 1
        /\ cpu[t].rip \in {HostIdle, HostRA, HostRA2} =>
               gh[t].enters = gh[t].calls /\ gh[t].resumes = gh[t].calls
        /\ cpu[t].rip \in GuestCode =>
               gh[t].resumes = gh[t].calls /\ gh[t].enters = gh[t].calls - 1
        /\ (gh[t].calls > gh[t].enters \/ AfterEnter(t)) =>
               /\ mem[self[t] + TrapNumOff] = gh[t].fr[self[t] + TrapNumOff]
               /\ mem[self[t] + ErrorCodeOff] = gh[t].fr[self[t] + ErrorCodeOff]
\* the second cycle's Enter has just returned; the frame's sentinel fields
\* still hold other values than the ones run_fncall is about to store
C13_Witness ==
    \E t \in Threads :
        /\ AfterEnter(t)
        /\ gh[t].calls = 2 /\ gh[t].resumes = 2 /\ gh[t].enters = 2
        /\ mem[self[t] + TrapNumOff] # 256
        /\ mem[self[t] + ErrorCodeOff] # 0

(***************************************************************************)
(* The two builds side by side: thread 1 runs the Linux build, thread 2    *)
(* the macOS build, and host and guest do the same thing on both.  Every   *)
(* action takes both threads to the next point where host or guest code    *)
(* has control.                                                            *)
(***************************************************************************)
\* the routine entered with (c, m), run until control leaves the assembly
RECURSIVE RunAsm(_, _, _, _, _)
RunAsm(o, c, m, af, fuel) ==
    IF fuel = 0 \/ ~InAsm(o, c.rip) THEN [c |-> c, m |-> m]
    ELSE LET r == Exec(o, c, m, Fetch(o, c.rip), af)
         IN  RunAsm(o, r.c, r.m, af, fuel - 1)

\* a value with the thread's placement and the platform's initial-guest
\* offset taken out
Abs(t, v) ==
    IF v = InitUserBase(os[t], t) THEN 0 - 2
    ELSE IF v >= ThreadBase(t) /\ v < ThreadBase(t + 1) THEN v - ThreadBase(t)
    ELSE v
SameValue(v1, v2) == Abs(1, v1) = Abs(2, v2)

InitOS ==
    InitCommon([t \in Threads |-> IF t = 1 THEN "linux" ELSE "macos"],
               [t \in Threads |-> Budget(MaxCycles, MaxEdits)])

\* run_fncall on frame k, up to the guest's first instruction
OSCall ==
    /\ \A t \in Threads : cpu[t].rip = HostIdle /\ left[t].cycles > 0
    /\ \E k \in 1..2, af1 \in BOOLEAN, af2 \in BOOLEAN :
         LET c1 == CallInsn(HostRegs(1, k, Frame(1, k), cpu[1].tls), mem, ReturnAddr)
             r1 == RunAsm(os[1], c1.c, c1.m, af1, CycleSteps)
             c2 == CallInsn(HostRegs(2, k, Frame(2, k), cpu[2].tls), r1.m, ReturnAddr)
             r2 == RunAsm(os[2], c2.c, c2.m, af2, CycleSteps)
         IN  /\ \A t \in Threads : pending[t] \in {0, Frame(t, k)}
             /\ cpu' = [t \in Threads |-> IF t = 1 THEN r1.c ELSE r2.c]
             /\ mem' = r2.m
             /\ self' = [t \in Threads |-> Frame(t, k)]
    /\ pending' = [t \in Threads |-> 0]
    /\ left' = [t \in Threads |-> [left[t] EXCEPT !.cycles = @ - 1]]
    /\ UNCHANGED <<os, gh>>
\* the guest's call of syscall_fn_entry, up to the return into run_fncall
OSGuestCall ==
    /\ \A t \in Threads : cpu[t].rip \in GuestCode
    /\ LET c1 == CallInsn([GuestBeforeCall(1, cpu[1]) EXCEPT !.rip = @ + 1], mem, EntryAddr)
           r1 == RunAsm(os[1], c1.c, c1.m, FALSE, CycleSteps)
           c2 == CallInsn([GuestBeforeCall(2, cpu[2]) EXCEPT !.rip = @ + 1], r1.m, EntryAddr)
           r2 == RunAsm(os[2], c2.c, c2.m, FALSE, CycleSteps)
       IN  /\ cpu' = [t \in Threads |-> IF t = 1 THEN r1.c ELSE r2.c]
           /\ mem' = r2.m
    /\ UNCHANGED <<os, self, pending, left, gh>>
\* run_fncall's two stores
OSSetTrapNum ==
    /\ \A t \in Threads : cpu[t].rip = HostRA
    /\ LET r1 == SetTrapNum(self[1], cpu[1], mem)
           r2 == SetTrapNum(self[2], cpu[2], r1.m)
       IN  /\ cpu' = [t \in Threads |-> IF t = 1 THEN r1.c ELSE r2.c]
           /\ mem' = r2.m
    /\ UNCHANGED <<os, self, pending, left, gh>>
OSSetErrorCode ==
    /\ \A t \in Threads : cpu[t].rip = HostRA2
    /\ LET r1 == SetErrorCode(self[1], cpu[1], mem)
           r2 == SetErrorCode(self[2], cpu[2], r1.m)
       IN  /\ cpu' = [t \in Threads |-> IF t = 1 THEN r1.c ELSE r2.c]
           /\ mem' = r2.m
    /\ UNCHANGED <<os, self, pending, left, gh>>
\* the host sets the same field of frame k to the same value on both
OSHostMutate ==
    /\ \A t \in Threads :
           cpu[t].rip = HostIdle /\ left[t].cycles > 0 /\ left[t].edits > 0
           /\ pending[t] = 0
    /\ \E k \in 1..2, ch1 \in MutChoices(1), ch2 \in MutChoices(2) :
         /\ ch1[1] = ch2[1] /\ SameValue(ch1[2], ch2[2])
         /\ mem[Frame(1, k) + FieldOff(ch1[1])] # ch1[2]
         /\ mem' = [mem EXCEPT ![Frame(1, k) + FieldOff(ch1[1])] = ch1[2],
                               ![Frame(2, k) + FieldOff(ch2[1])] = ch2[2]]
         /\ pending' = [t \in Threads |-> Frame(t, k)]
    /\ left' = [t \in Threads |-> [left[t] EXCEPT !.edits = @ - 1]]
    /\ UNCHANGED <<os, cpu, self, gh>>
\* the guest stores the same value into its self-pointer word on both
OSGuestWriteSelf ==
    /\ \A t \in Threads : cpu[t].rip \in GuestCode /\ left[t].edits > 0
    /\ \E i \in 0..2 :
         LET v1 == IF i = 0 THEN 0 ELSE GuestTls(1, i)
             v2 == IF i = 0 THEN 0 ELSE GuestTls(2, i)
         IN  /\ mem[cpu[1].tls] # v1
             /\ mem' = [mem EXCEPT ![cpu[1].tls] = v1, ![cpu[2].tls] = v2]
    /\ left' = [t \in Threads |-> [left[t] EXCEPT !.edits = @ - 1]]
    /\ UNCHANGED <<os, cpu, self, pending, gh>>
NextOS ==
    \/ OSCall
    \/ OSGuestCall
    \/ OSSetTrapNum
    \/ OSSetErrorCode
    \/ OSHostMutate
    \/ OSGuestWriteSelf
SpecOS == InitOS /\ [][NextOS]_vars

\* both builds are at the same point with the same frames and TLS kind
SameFrames ==
    \A k \in 1..2, i \in 0..(FrameWords - 1) :
        SameValue(mem[Frame(1, k) + 8 * i], mem[Frame(2, k) + 8 * i])
SameControl ==
    /\ cpu[1].rip = cpu[2].rip
    /\ SameValue(self[1], self[2])
    /\ SameValue(cpu[1].tls, cpu[2].tls)
    /\ (cpu[1].tls = HostBase(1)) <=> (cpu[2].tls = HostBase(2))
SameRegs(rs) == \A r \in rs : SameValue(cpu[1][r], cpu[2][r])
InHost(t) == cpu[t].rip \in {HostIdle, HostRA, HostRA2}

\* C14 as stated: after every Resume/Enter step both builds have the same
\* frame contents, the same active TLS base (guest or host) and the same
\* guest and host register state, every register included.
C14_AsStated ==
    /\ SameFrames
    /\ SameControl
    /\ SameRegs(GPR \cup {"rflags"})
\* C14 (amended): after every Resume/Enter step both builds have the same
\* frame contents and the same active TLS base (guest or host); while the
\* guest runs every register and the flags are the same; while the host runs
\* the registers the calling convention preserves (rbx, rbp, r12-r15, the
\* stack pointer and the return address) and the flags are the same, and so
\* are all others except rax, rcx, rdi and rsi, which hold the result and
\* the leftovers of each build's own TLS-base system call sequence.
C14_Equivalent ==
    /\ SameFrames
    /\ SameControl
    /\ cpu[1].rip \in GuestCode => SameRegs(GPR \cup {"rflags"})
    /\ InHost(1) => SameRegs((GPR \ {"rax", "rcx", "rdi", "rsi"}) \cup {"rflags"})
    /\ InHost(1) => SameRegs(CalleeSaved \cup {"rsp"})
\* both builds have come back from the second cycle, which took the fallback
\* path, with different leftovers in rdi
C14_Witness ==
    /\ cpu[1].rip = HostRA /\ cpu[2].rip = HostRA
    /\ left[1].cycles = 0
    /\ mem[self[1] + FieldOff("fsbase")] = InitUserBase(os[1], 1)
    /\ mem[self[2] + FieldOff("fsbase")] = InitUserBase(os[2], 2)
    /\ cpu[1].rdi # cpu[2].rdi

\* the address of `mov rsp, [rsp - 8*11]` in syscall_fn_return
RestoreRspAddr(o) == ReturnAddr + Len(ReturnCode(o)) - 2
\* the frame as it was when syscall_fn_return was called
FrameAtCall(t, name) == gh[t].fr[self[t] + FieldOff(name)]

\* C15 as stated: for any frame the guest starts at the frame's rip with
\* its stack pointer equal to the frame's rsp, its flags register equal to
\* the frame's flags field and every integer register other than r11 equal
\* to its frame field.
C15_AsStated ==
    \A t \in Threads :
        AfterResume(t) =>
            /\ cpu[t].rip = FrameAtCall(t, "rip")
            /\ cpu[t].rsp = FrameAtCall(t, "rsp")
            /\ cpu[t].rflags = FrameAtCall(t, "rflags")
            /\ \A r \in GPR \ {"r11", "rsp"} : cpu[t][r] = FrameAtCall(t, r)
\* C15 (amended): for any frame, host-edited or not, the guest starts at the
\* frame's rip with its stack pointer equal to the frame's rsp field, which
\* is loaded from the frame slot by the last instruction before the jump
\* (the stack pointer then being at the frame's fsbase slot), and every
\* integer register other than r11 equals its frame field although the
\* system call inside Resume overwrote rax, rcx and r11.  The flags equal
\* the frame's flags field in the bits popfq can write in user mode (the
\* status flags, TF and DF); the interrupt flag and the reserved bits keep
\* the value they had in the host.
C15_Install ==
    \A t \in Threads :
        /\ AfterResume(t) =>
              /\ cpu[t].rip = FrameAtCall(t, "rip")
              /\ cpu[t].rsp = FrameAtCall(t, "rsp")
              /\ \A r \in GPR \ {"r11", "rsp"} : cpu[t][r] = FrameAtCall(t, r)
              /\ BitAnd(cpu[t].rflags, PopfqMask)
                     = BitAnd(FrameAtCall(t, "rflags"), PopfqMask)
              /\ BitAnd(cpu[t].rflags, FlagsAll - PopfqMask)
                     = BitAnd(gh[t].atcall.rflags, FlagsAll - PopfqMask)
        /\ cpu[t].rip = RestoreRspAddr(os[t]) =>
              /\ cpu[t].rsp = self[t] + FieldOff("fsbase")
              /\ Touches(cpu[t], Fetch(os[t], cpu[t].rip)) = {self[t] + FieldOff("rsp")}
\* a guest has been resumed from a frame whose rax and rcx fields differ from
\* what the system call left, whose rsp field differs from its neighbours
\* and whose flags field the host has set
C15_Witness ==
    \E t \in Threads :
        /\ AfterResume(t)
        /\ self[t] + FieldOff("rflags") \in gh[t].edited
        /\ FrameAtCall(t, "rax") # 0
        /\ FrameAtCall(t, "rcx") \notin ReturnAddr..(ReturnAddr + CycleSteps)
        /\ FrameAtCall(t, "rsp") # FrameAtCall(t, "r8")

\* C16: Resume followed by Enter returns the TLS base to the frame.  When
\* syscall_fn_return was called with TLS field B and the guest has called
\* syscall_fn_entry without storing into its TLS block, the captured TLS
\* field is the word at offset 0 of the block Resume installed; for B = 0
\* it equals the installed (fallback) base, Resume having stored the
\* self-pointer; for B # 0 the installed base is B, Resume has not stored
\* into the word at B, and the captured field equals B exactly when the
\* word at B holds B.
C16_RoundTrip ==
    \A t \in Threads :
        /\ (AfterEnter(t) /\ ~gh[t].wroteNow) =>
              LET B == FrameAtCall(t, "fsbase")
                  installed == gh[t].pre.tls
                  captured == FrameField(mem, self[t], "fsbase")
              IN  /\ captured = mem[installed]
                  /\ B = 0 => captured = installed /\ installed # 0
                  /\ B # 0 => /\ installed = B
                              /\ (captured = installed) <=> (mem[B] = B)
        /\ AfterResume(t) =>
              LET B == FrameAtCall(t, "fsbase")
              IN  /\ B = 0 => cpu[t].tls \in gh[t].wr /\ mem[cpu[t].tls] = cpu[t].tls
                  /\ B # 0 => cpu[t].tls = B /\ B \notin gh[t].wr
\* an Enter has captured a TLS field other than the non-zero base Resume
\* installed, the word at that base not holding the base
C16_Witness ==
    \E t \in Threads :
        /\ AfterEnter(t) /\ ~gh[t].wroteNow
        /\ FrameAtCall(t, "fsbase") # 0
        /\ mem[FrameAtCall(t, "fsbase")] # FrameAtCall(t, "fsbase")
        /\ FrameField(mem, self[t], "fsbase") # gh[t].pre.tls

\* C17: Enter stores nothing but the 20 register slots of the active frame.
\* Every instruction of syscall_fn_entry leaves every word outside the
\* frame's register area as it was (guest stack, guest and host TLS blocks,
\* host stack, trap_num and error_code, the other frame); when Enter has
\* returned, the words it stored are exactly those 20 slots, the gs_base
\* slot holds 0, and trap_num and error_code still hold what they held when
\* syscall_fn_return was called.
C17_EnterWrites ==
    /\ [](\A t \in Threads :
            AfterEnter(t) =>
                /\ gh[t].wr = FrameRegArea(self[t])
                /\ FrameField(mem, self[t], "gsbase") = 0
                /\ mem[self[t] + TrapNumOff] = gh[t].fr[self[t] + TrapNumOff]
                /\ mem[self[t] + ErrorCodeOff] = gh[t].fr[self[t] + ErrorCodeOff])
    /\ [][\A t \in Threads :
            (InEntry(os[t], cpu[t].rip) /\ cpu'[t] # cpu[t]) =>
                \A a \in Addrs \ FrameRegArea(self[t]) : mem'[a] = mem[a]]_vars
\* an Enter has returned on a frame whose gs_base slot and sentinel fields
\* held non-zero values at the call, while the guest's TLS block and stack
\* hold non-zero words
C17_Witness ==
    \E t \in Threads :
        /\ AfterEnter(t)
        /\ gh[t].fr[self[t] + FieldOff("gsbase")] # 0
        /\ mem[self[t] + TrapNumOff] \notin {0, 256}
        /\ mem[gh[t].pre.tls] # 0 /\ mem[gh[t].pre.rsp - 8] # 0

\* C18: Resume never writes the trap frame.  From the call of
\* syscall_fn_return until the guest calls syscall_fn_entry, all 20 register
\* slots and trap_num and error_code of the frame hold what the host left
\* in them (a zero TLS field stays zero through the fallback); when Resume
\* has handed over to the guest, the words it has stored are the seven words
\* it pushed on the host stack, the host-stack slot, the guest's stash slot
\* and, if the TLS field was zero, the guest's self-pointer word.
C18_ResumeWrites ==
    /\ [](\A t \in Threads :
            /\ (InReturn(os[t], cpu[t].rip) \/ cpu[t].rip \in GuestCode) =>
                   FrameSnapshot(mem, self[t]) = gh[t].fr
            /\ AfterResume(t) =>
                   gh[t].wr = Range(SavedHostSp(t), Len(SaveCalleeSaved))
                              \cup {KernelStackSlot(os[t], t), cpu[t].tls + 48}
                              \cup (IF FrameAtCall(t, "fsbase") = 0
                                    THEN {cpu[t].tls} ELSE {}))
    /\ [][\A t \in Threads :
            (InReturn(os[t], cpu[t].rip) /\ cpu'[t] # cpu[t]) =>
                \A a \in Addrs :
                    mem'[a] # mem[a] =>
                        /\ a \in gh'[t].wr
                        /\ a \notin FrameArea(self[t])]_vars
\* a guest has been resumed through the fallback for the first time while
\* the frame's TLS field is still zero
C18_Witness ==
    \E t \in Threads :
        /\ AfterResume(t)
        /\ FrameAtCall(t, "fsbase") = 0
        /\ FrameField(mem, self[t], "fsbase") = 0
        /\ cpu[t].tls \in gh[t].wr
        /\ Cardinality(gh[t].wr) = Len(SaveCalleeSaved) + 3

\* C19: in the fallback case the guest's TLS block lies inside the host
\* TLS block, at host base + 72 on Linux and + 240 on macOS, and the two
\* words Resume stores there (guest offsets 0 and 48) are neither the
\* host's self-pointer word nor the host-stack slot.  After any number of
\* fallback Resumes the host's self-pointer word holds its initial value,
\* the host-stack slot holds the stack pointer the current Resume saved
\* while the guest runs, and Enter returns to the host on that stack.
C19_NoOverlap ==
    \A t \in Threads :
        /\ (AfterResume(t) /\ FrameAtCall(t, "fsbase") = 0) =>
               /\ cpu[t].tls = HostBase(t) + (IF os[t] = "linux" THEN 72 ELSE 240)
               /\ {cpu[t].tls, cpu[t].tls + 48} \subseteq Range(HostTcb(t), HostTcbWords)
               /\ {cpu[t].tls, cpu[t].tls + 48} \subseteq gh[t].wr
               /\ {cpu[t].tls, cpu[t].tls + 48}
                      \cap {HostBase(t), KernelStackSlot(os[t], t)} = {}
        /\ mem[HostBase(t)] = HostSelfWord(os[t], t)
        /\ (cpu[t].rip \in GuestCode /\ cpu[t].tls = InitUserBase(os[t], t)) =>
               mem[KernelStackSlot(os[t], t)] = SavedHostSp(t)
        /\ (AfterEnter(t) /\ FrameAtCall(t, "fsbase") = 0) =>
               /\ cpu[t].rsp = gh[t].atcall.rsp
               /\ cpu[t].tls = HostBase(t)
\* the second fallback Resume of a thread has handed over to the guest, at
\* another host stack depth than the first
C19_Witness ==
    \E t \in Threads :
        /\ AfterResume(t)
        /\ FrameAtCall(t, "fsbase") = 0
        /\ gh[t].resumes = 2
        /\ gh[t].firstTls[1] = InitUserBase(os[t], t)
        /\ self[t] = Frame(t, 2)
        /\ mem[KernelStackSlot(os[t], t)] # HostStackTop(t) - 8 - 8 * Len(SaveCalleeSaved)

====
